---- MODULE Spec2Model ----
(***************************************************************************)
(* Real-time duplex voice session of Ask-DHARMA-AI.                        *)
(*                                                                         *)
(* The model covers src/components/LiveVoiceInterface.tsx (startSession,   *)
(* the channel callbacks, stopAllPlayback, stopSession) and the live part  *)
(* of src/services/geminiService.ts (connectLiveDharma, createPcmBlob,     *)
(* pcmToAudioBuffer).  The browser (AudioContext, getUserMedia, the        *)
(* ScriptProcessor) and the live channel of the SDK are the environment:   *)
(* their events are actions, their outcomes are nondeterministic.          *)
(*                                                                         *)
(* One action is one JavaScript task: a handler runs from its entry to its *)
(* next suspension on a macrotask.  `await connectLiveDharma(...)` awaits  *)
(* an async function that contains no await, so its continuation runs in   *)
(* the microtask checkpoint of the same task and no other handler can run  *)
(* in between; lines 109-191 of startSession are therefore one action.     *)
(*                                                                         *)
(* Time is counted in output samples (1/24000 s): a playback unit of n     *)
(* samples lasts n units.                                                  *)
(***************************************************************************)
EXTENDS Integers, Sequences, FiniteSets, TLC

\* ---- bounds of the model ----
MaxStarts == 2
MaxTime == 2
MaxUnits == 2
MaxFrames == 2
MaxLen == 2
MaxBytes == 3
MaxRestarts == 1

\* ---- program constants ----
FrameSamples == 4096
InputRate == 16000
OutputRate == 24000

\* byte lengths of the inbound chunks the channel delivers (3 is odd: malformed)
ChunkBytes == {2, 3, 4}

\* the calls of startSession, by number: MaxStarts of them, and MaxRestarts
\* more where a caller starts over and over
Starts == 1..(MaxStarts + MaxRestarts)
NULL == 0

\* the value null of the error text
NoError == "null"

MsgStartFailed == "Microphone access failed or Connection rejected."
MsgConnection == "Connection Error"

\* a sample value a stands for a / SampleDen
SampleDen == 65536

\* sample values: beyond the range, the two ends, values whose product with
\* the scale has a fraction, zero and its neighbours
SampleSet ==
  { -2 * SampleDen, -SampleDen - 1, -SampleDen, -SampleDen + 1,
    -(SampleDen \div 2) - 1, -1, 0, 1, SampleDen \div 2,
    SampleDen \div 2 + 1, SampleDen - 1, SampleDen, SampleDen + 1,
    2 * SampleDen }

ByteSet == {0, 1, 127, 128, 255}

\* sequences over S of length at most n
SeqsUpTo(S, n) == UNION {[1..m -> S] : m \in 0..n}

VARIABLES
  isActive, status, error,
  inputContextRef, outputContextRef,
  nextStartTimeRef, audioQueueRef,
  sendAudioRef, disconnectRef, analyserRef,
  pc, nStarts,
  inState, outState, outClock, micState, procOn,
  chanState, chanPending, chanSent, chanCloseCalls, disconnectCalls,
  nodes, nUnits, frameSeq,
  lastCursorEvt, cancelled, mounted,
  codecPc, codecData, codecBlob, codecBuffer

sessionVars ==
  << isActive, status, error, inputContextRef, outputContextRef,
     nextStartTimeRef, audioQueueRef, sendAudioRef, disconnectRef,
     analyserRef, pc, nStarts, inState, outState, outClock, micState,
     procOn, chanState, chanPending, chanSent, chanCloseCalls,
     disconnectCalls, nodes, nUnits, frameSeq, lastCursorEvt,
     cancelled, mounted >>

codecVars == << codecPc, codecData, codecBlob, codecBuffer >>

vars == << sessionVars, codecVars >>

\* ---- helpers ----
Range(q) == {q[i] : i \in DOMAIN q}

Max(a, b) == IF a >= b THEN a ELSE b

Min(a, b) == IF a <= b THEN a ELSE b

\* Array.prototype.indexOf + splice(idx, 1): drop the first occurrence of n
RECURSIVE RemoveFirst(_, _)
RemoveFirst(q, n) ==
  IF q = <<>> THEN <<>>
  ELSE IF Head(q) = n THEN Tail(q)
  ELSE <<Head(q)>> \o RemoveFirst(Tail(q), n)

\* the source nodes created so far, by number; none at first
NoNodes == [n \in {} |-> 0]

\* the whole state as one record, so that a handler is a function on states
Cur ==
  [ isActive |-> isActive, status |-> status, error |-> error,
    inputContextRef |-> inputContextRef, outputContextRef |-> outputContextRef,
    nextStartTimeRef |-> nextStartTimeRef, audioQueueRef |-> audioQueueRef,
    sendAudioRef |-> sendAudioRef, disconnectRef |-> disconnectRef,
    analyserRef |-> analyserRef, pc |-> pc, nStarts |-> nStarts,
    inState |-> inState, outState |-> outState, outClock |-> outClock,
    micState |-> micState, procOn |-> procOn,
    chanState |-> chanState, chanPending |-> chanPending,
    chanSent |-> chanSent, chanCloseCalls |-> chanCloseCalls,
    disconnectCalls |-> disconnectCalls, nodes |-> nodes,
    nUnits |-> nUnits,
    frameSeq |-> frameSeq, lastCursorEvt |-> lastCursorEvt,
    cancelled |-> cancelled, mounted |-> mounted ]

Commit(s) ==
  /\ isActive' = s.isActive
  /\ status' = s.status
  /\ error' = s.error
  /\ inputContextRef' = s.inputContextRef
  /\ outputContextRef' = s.outputContextRef
  /\ nextStartTimeRef' = s.nextStartTimeRef
  /\ audioQueueRef' = s.audioQueueRef
  /\ sendAudioRef' = s.sendAudioRef
  /\ disconnectRef' = s.disconnectRef
  /\ analyserRef' = s.analyserRef
  /\ pc' = s.pc
  /\ nStarts' = s.nStarts
  /\ inState' = s.inState
  /\ outState' = s.outState
  /\ outClock' = s.outClock
  /\ micState' = s.micState
  /\ procOn' = s.procOn
  /\ chanState' = s.chanState
  /\ chanPending' = s.chanPending
  /\ chanSent' = s.chanSent
  /\ chanCloseCalls' = s.chanCloseCalls
  /\ disconnectCalls' = s.disconnectCalls
  /\ nodes' = s.nodes
  /\ nUnits' = s.nUnits
  /\ frameSeq' = s.frameSeq
  /\ lastCursorEvt' = s.lastCursorEvt
  /\ cancelled' = s.cancelled
  /\ mounted' = s.mounted
  /\ UNCHANGED codecVars

\* ---- PCM codec (geminiService.ts) ----

\* createPcmBlob: n samples become an Int16Array of n elements, 2n bytes
createPcmBlob(frame) ==
  [ frame |-> frame, bytes |-> 2 * FrameSamples,
    mimeType |-> "audio/pcm;rate=16000" ]

\* a decoder that accepts an odd byte length
pcmDecodesAny(bytes) == TRUE

\* a decoder without the alignment check of the Int16Array constructor
pcmDecodesOdd(bytes) == bytes # 0

\* pcmToAudioBuffer: new Int16Array(bytes.buffer) throws a RangeError when the
\* byte length is odd, and createBuffer throws a NotSupportedError when the
\* length is zero; otherwise the buffer holds bytes/2 samples
pcmDecodes(bytes) == bytes % 2 = 0 /\ bytes # 0

pcmSamples(bytes) == bytes \div 2

\* a buffer created at the capture rate
bufferDurationAtInputRate(n, sampleRate) == (n * OutputRate) \div InputRate

\* AudioBuffer.duration = length / sampleRate seconds, in units of
\* 1/OutputRate s (exact when sampleRate divides n * OutputRate)
bufferDuration(n, sampleRate) == (n * OutputRate) \div sampleRate

\* -- the codec on sample values --
\* A Float32 sample is the integer a that stands for a / SampleDen; the
\* products s * 0x8000 and s * 0x7FFF are exact in double precision.  To stay
\* within 32-bit integers s * 0x8000 / SampleDen is computed as
\* s * 0x4000 / (SampleDen / 2).

\* Math.max(-1, Math.min(1, x))
clamp(a) == Max(-SampleDen, Min(SampleDen, a))

\* the integer part of n / d, toward zero
truncDiv(n, d) == IF n >= 0 THEN n \div d ELSE -((-n) \div d)

\* a store into an Int16Array keeps the integer modulo 2^16
wrap16(v) == LET u == v % 65536 IN IF u >= 32768 THEN u - 65536 ELSE u

\* a quantizer that scales both signs by 0x8000
quantizeSymmetric(a) ==
  wrap16(truncDiv(clamp(a) * 16384, SampleDen \div 2))

\* int16[i] = s < 0 ? s * 0x8000 : s * 0x7FFF  (lines 246-247)
quantize(a) ==
  LET s == clamp(a)
  IN wrap16(IF s < 0 THEN truncDiv(s * 16384, SampleDen \div 2)
            ELSE truncDiv(s * 32767, SampleDen))

\* new Uint8Array(int16.buffer): two bytes per element, low byte first
RECURSIVE int16Bytes(_)
int16Bytes(q) ==
  IF q = <<>> THEN <<>>
  ELSE LET u == Head(q) % 65536
       IN << u % 256, u \div 256 >> \o int16Bytes(Tail(q))

\* btoa: three bytes become four 6-bit characters; 64 stands for '='
RECURSIVE encode(_)
encode(bytes) ==
  IF Len(bytes) = 0 THEN <<>>
  ELSE IF Len(bytes) = 1
  THEN << bytes[1] \div 4, (bytes[1] % 4) * 16, 64, 64 >>
  ELSE IF Len(bytes) = 2
  THEN << bytes[1] \div 4, (bytes[1] % 4) * 16 + bytes[2] \div 16,
          (bytes[2] % 16) * 4, 64 >>
  ELSE << bytes[1] \div 4, (bytes[1] % 4) * 16 + bytes[2] \div 16,
          (bytes[2] % 16) * 4 + bytes[3] \div 64, bytes[3] % 64 >>
       \o encode(SubSeq(bytes, 4, Len(bytes)))

\* atob, on the output of btoa
RECURSIVE decode(_)
decode(base64) ==
  IF Len(base64) < 4 THEN <<>>
  ELSE LET c == base64
           b1 == c[1] * 4 + c[2] \div 16
           b2 == (c[2] % 16) * 16 + c[3] \div 4
           b3 == (c[3] % 4) * 64 + c[4]
       IN IF c[3] = 64 THEN << b1 >>
          ELSE IF c[4] = 64 THEN << b1, b2 >>
          ELSE << b1, b2, b3 >> \o decode(SubSeq(c, 5, Len(c)))

\* the data field of createPcmBlob (lines 241-250)
pcmData(data) ==
  encode(int16Bytes([i \in 1..Len(data) |-> quantize(data[i])]))

\* a decoder that drops the high byte of every sample
dataInt16Low(bytes, i) == bytes[2 * i - 1]

\* element i of new Int16Array(bytes.buffer)
dataInt16(bytes, i) == wrap16(bytes[2 * i - 1] + 256 * bytes[2 * i])

\* pcmToAudioBuffer (lines 255-267): the samples of the buffer, sample i
\* standing for samples[i] / 32768; ok is FALSE when the function throws
pcmToAudioBuffer(base64) ==
  LET bytes == decode(base64)
  IN IF ~pcmDecodes(Len(bytes))
     THEN [ ok |-> FALSE, samples |-> <<>> ]
     ELSE [ ok |-> TRUE,
            samples |-> [i \in 1..pcmSamples(Len(bytes)) |->
                            dataInt16(bytes, i)] ]

\* ---- the session returned by the SDK (geminiService.ts 319-329) ----

\* session.close() on the resolved session
sessionClose(s, c) ==
  [s EXCEPT !.chanCloseCalls[c] = @ + 1,
            !.chanState[c] = IF @ = "open" THEN "closing" ELSE @]

\* a channel that puts the newest chunk first
sessionSendFront(s, c, blob) ==
  IF s.chanState[c] = "open"
  THEN [s EXCEPT !.chanSent[c] = << blob >> \o @]
  ELSE s

\* session.sendRealtimeInput({media: blob}) on the resolved session
sessionSend(s, c, blob) ==
  IF s.chanState[c] = "open"
  THEN [s EXCEPT !.chanSent[c] = Append(@, blob)]
  ELSE s

\* sessionPromise.then(f): f runs now when the promise is resolved, when the
\* channel opens if it is pending, never if the open failed
disconnect(s, c) ==
  IF s.chanState[c] = "connecting"
  THEN [s EXCEPT !.chanPending[c] = Append(@, [t |-> "close"])]
  ELSE IF s.chanState[c] \in {"open", "closing", "closed"}
  THEN sessionClose(s, c)
  ELSE s

\* sendAudioChunk that hands the blob over twice
sendAudioChunkTwice(s, c, frame) ==
  LET blob == createPcmBlob(frame) IN
  IF s.chanState[c] = "connecting"
  THEN [s EXCEPT !.chanPending[c] =
                   @ \o << [t |-> "send", blob |-> blob],
                           [t |-> "send", blob |-> blob] >>]
  ELSE IF s.chanState[c] \in {"open", "closing", "closed"}
  THEN sessionSend(sessionSend(s, c, blob), c, blob)
  ELSE s

sendAudioChunk(s, c, frame) ==
  LET blob == createPcmBlob(frame) IN
  IF s.chanState[c] = "connecting"
  THEN [s EXCEPT !.chanPending[c] = Append(@, [t |-> "send", blob |-> blob])]
  ELSE IF s.chanState[c] \in {"open", "closing", "closed"}
  THEN sessionSend(s, c, blob)
  ELSE s

\* the reactions registered on sessionPromise run in registration order
RECURSIVE runPending(_, _, _)
runPending(s, c, ops) ==
  IF ops = <<>> THEN s
  ELSE LET o == Head(ops)
           s1 == IF o.t = "close" THEN sessionClose(s, c)
                 ELSE sessionSend(s, c, o.blob)
       IN runPending(s1, c, Tail(ops))

\* ---- LiveVoiceInterface.tsx ----

\* AudioContext.close(): the context is closed asynchronously
ctxClose(st) == IF st = "running" THEN "closing" ELSE st

\* stopAllPlayback that forgets the nodes: the array is not emptied
stopAllPlaybackKeepsQueue(s) ==
  LET s1 == [s EXCEPT !.lastCursorEvt = IF s.outputContextRef # NULL THEN "flush" ELSE @]
  IN IF s1.outputContextRef # NULL
     THEN [s1 EXCEPT !.nextStartTimeRef = s1.outClock[s1.outputContextRef]]
     ELSE s1

\* stopAllPlayback without lines 208-211: the cursor is left where it was
stopAllPlaybackKeepsCursor(s) ==
  LET q == Range(s.audioQueueRef)
  IN [s EXCEPT !.nodes = [n \in DOMAIN s.nodes |->
                  IF n \in q THEN [s.nodes[n] EXCEPT !.stopped = TRUE]
                  ELSE s.nodes[n]],
               !.audioQueueRef = <<>>,
               !.lastCursorEvt = IF s.outputContextRef # NULL THEN "flush" ELSE @]

stopAllPlayback(s) ==
  LET q == Range(s.audioQueueRef)
      s1 == [s EXCEPT !.nodes = [n \in DOMAIN s.nodes |->
                         IF n \in q THEN [s.nodes[n] EXCEPT !.stopped = TRUE]
                         ELSE s.nodes[n]],
                      !.audioQueueRef = <<>>,
                      !.lastCursorEvt = IF s.outputContextRef # NULL THEN "flush" ELSE @]
  IN IF s1.outputContextRef # NULL
     THEN [s1 EXCEPT !.nextStartTimeRef = s1.outClock[s1.outputContextRef]]
     ELSE s1

\* stopSession without line 217: the disconnect handle stays installed
stopSessionKeepsHandle(s) ==
  LET s1 == IF s.disconnectRef # NULL
            THEN disconnect([s EXCEPT !.disconnectCalls[s.disconnectRef] = @ + 1],
                            s.disconnectRef)
            ELSE s
      s2 == [s1 EXCEPT !.sendAudioRef = NULL]
      s3 == IF s2.inputContextRef # NULL
            THEN [s2 EXCEPT !.inState[s2.inputContextRef] = ctxClose(@),
                            !.inputContextRef = NULL]
            ELSE s2
      s4 == IF s3.outputContextRef # NULL
            THEN [s3 EXCEPT !.outState[s3.outputContextRef] = ctxClose(@),
                            !.outputContextRef = NULL]
            ELSE s3
  IN [s4 EXCEPT !.analyserRef = NULL,
                !.audioQueueRef = <<>>,
                !.isActive = FALSE,
                !.status = "Disconnected",
                !.cancelled = [k \in Starts |->
                                 @[k] \/ s.pc[k] = "awaitMic"]]

\* stopSession without line 218: the send handle stays installed
stopSessionKeepsSender(s) ==
  LET s1 == IF s.disconnectRef # NULL
            THEN disconnect([s EXCEPT !.disconnectCalls[s.disconnectRef] = @ + 1],
                            s.disconnectRef)
            ELSE s
      s2 == [s1 EXCEPT !.disconnectRef = NULL]
      s3 == IF s2.inputContextRef # NULL
            THEN [s2 EXCEPT !.inState[s2.inputContextRef] = ctxClose(@),
                            !.inputContextRef = NULL]
            ELSE s2
      s4 == IF s3.outputContextRef # NULL
            THEN [s3 EXCEPT !.outState[s3.outputContextRef] = ctxClose(@),
                            !.outputContextRef = NULL]
            ELSE s3
  IN [s4 EXCEPT !.analyserRef = NULL,
                !.audioQueueRef = <<>>,
                !.isActive = FALSE,
                !.status = "Disconnected",
                !.cancelled = [k \in Starts |->
                                 @[k] \/ s.pc[k] = "awaitMic"]]

\* stopSession without line 230: the closed output context stays installed
stopSessionKeepsOutput(s) ==
  LET s1 == IF s.disconnectRef # NULL
            THEN disconnect([s EXCEPT !.disconnectCalls[s.disconnectRef] = @ + 1],
                            s.disconnectRef)
            ELSE s
      s2 == [s1 EXCEPT !.disconnectRef = NULL, !.sendAudioRef = NULL]
      s3 == IF s2.inputContextRef # NULL
            THEN [s2 EXCEPT !.inState[s2.inputContextRef] = ctxClose(@),
                            !.inputContextRef = NULL]
            ELSE s2
      s4 == IF s3.outputContextRef # NULL
            THEN [s3 EXCEPT !.outState[s3.outputContextRef] = ctxClose(@)]
            ELSE s3
  IN [s4 EXCEPT !.analyserRef = NULL,
                !.audioQueueRef = <<>>,
                !.isActive = FALSE,
                !.status = "Disconnected",
                !.cancelled = [k \in Starts |->
                                 @[k] \/ s.pc[k] = "awaitMic"]]

stopSession(s) ==
  LET s1 == IF s.disconnectRef # NULL
            THEN disconnect([s EXCEPT !.disconnectCalls[s.disconnectRef] = @ + 1],
                            s.disconnectRef)
            ELSE s
      s2 == [s1 EXCEPT !.disconnectRef = NULL, !.sendAudioRef = NULL]
      s3 == IF s2.inputContextRef # NULL
            THEN [s2 EXCEPT !.inState[s2.inputContextRef] = ctxClose(@),
                            !.inputContextRef = NULL]
            ELSE s2
      s4 == IF s3.outputContextRef # NULL
            THEN [s3 EXCEPT !.outState[s3.outputContextRef] = ctxClose(@),
                            !.outputContextRef = NULL]
            ELSE s3
  IN [s4 EXCEPT !.analyserRef = NULL,
                !.audioQueueRef = <<>>,
                !.isActive = FALSE,
                !.status = "Disconnected",
                !.cancelled = [k \in Starts |->
                                 @[k] \/ s.pc[k] = "awaitMic"]]

\* Math.min in place of Math.max
startTimeOfMin(now, cursor) == Min(now, cursor)

\* the cursor ignored: every unit starts at once
startTimeOfNow(now, cursor) == now

\* Math.max(ctx.currentTime, nextStartTimeRef.current)
startTimeOf(now, cursor) == Max(now, cursor)

\* onAudio whose cursor update is computed from the clock alone, as when a
\* cursor update made between its read and its write is overwritten
onAudioLostUpdate(s, bytes) ==
  LET ctx == s.outputContextRef IN
  IF ctx = NULL THEN s
  ELSE IF ~pcmDecodes(bytes) THEN s
  ELSE LET dur == bufferDuration(pcmSamples(bytes), 24000)
           now == s.outClock[ctx]
           startTime == startTimeOf(now, s.nextStartTimeRef)
           n == s.nUnits + 1
           node == [ ctx |-> ctx, start |-> startTime, dur |-> dur,
                     stopped |-> FALSE, ended |-> FALSE ]
       IN [s EXCEPT !.nodes = [x \in DOMAIN @ \cup {n} |->
                                   IF x = n THEN node ELSE @[x]],
                    !.nUnits = n,
                    !.nextStartTimeRef = now + dur,
                    !.audioQueueRef = Append(@, n),
                    !.lastCursorEvt = "unit"]

onAudio(s, bytes) ==
  LET ctx == s.outputContextRef IN
  IF ctx = NULL THEN s
  ELSE IF ~pcmDecodes(bytes) THEN s
  ELSE LET dur == bufferDuration(pcmSamples(bytes), 24000)
           now == s.outClock[ctx]
           startTime == startTimeOf(now, s.nextStartTimeRef)
           n == s.nUnits + 1
           node == [ ctx |-> ctx, start |-> startTime, dur |-> dur,
                     stopped |-> FALSE, ended |-> FALSE ]
       IN [s EXCEPT !.nodes = [x \in DOMAIN @ \cup {n} |->
                                   IF x = n THEN node ELSE @[x]],
                    !.nUnits = n,
                    !.nextStartTimeRef = startTime + dur,
                    !.audioQueueRef = Append(@, n),
                    !.lastCursorEvt = "unit"]

\* onInterrupted that tears the session down instead of flushing
onInterruptedStops(s) == stopSession(s)

onInterrupted(s) == stopAllPlayback(s)

onClose(s) == stopSession(s)

\* onError without line 177: the error is not surfaced
onErrorSilent(s) == stopSession(s)

onError(s) == stopSession([s EXCEPT !.error = MsgConnection])

\* onended without the test of line 162: splice(-1, 1) drops the last node
onendedUnchecked(s, n) ==
  [s EXCEPT !.audioQueueRef =
               IF n \in Range(@) THEN RemoveFirst(@, n)
               ELSE SubSeq(@, 1, Len(@) - 1),
            !.nodes[n].ended = TRUE]

\* sourceNode.onended: the closure removes its own node (lines 159-163)
onended(s, n) ==
  [s EXCEPT !.audioQueueRef = RemoveFirst(@, n),
            !.nodes[n].ended = TRUE]

\* the catch block of startSession
startCatch(s, k) ==
  stopSession([s EXCEPT !.error = MsgStartFailed,
                        !.status = "Error",
                        !.pc[k] = "done"])

\* onmessage that handles the interruption before the audio
onmessageInterruptFirst(s, bytes, intr) ==
  LET s1 == IF intr THEN onInterrupted(s) ELSE s
  IN IF bytes # 0 THEN onAudio(s1, bytes) ELSE s1

\* connectLiveDharma.onmessage
onmessage(s, bytes, intr) ==
  LET s1 == IF bytes # 0 THEN onAudio(s, bytes) ELSE s
  IN IF intr THEN onInterrupted(s1) ELSE s1

\* ---- initial state ----
InitSession ==
  /\ isActive = FALSE
  /\ status = "Ready to Connect"
  /\ error = NoError
  /\ inputContextRef = NULL
  /\ outputContextRef = NULL
  /\ nextStartTimeRef = 0
  /\ audioQueueRef = <<>>
  /\ sendAudioRef = NULL
  /\ disconnectRef = NULL
  /\ analyserRef = NULL
  /\ pc = [k \in Starts |-> "idle"]
  /\ nStarts = 0
  /\ inState = [k \in Starts |-> "none"]
  /\ outState = [k \in Starts |-> "none"]
  /\ outClock = [k \in Starts |-> 0]
  /\ micState = [k \in Starts |-> "none"]
  /\ procOn = [k \in Starts |-> FALSE]
  /\ chanState = [k \in Starts |-> "none"]
  /\ chanPending = [k \in Starts |-> <<>>]
  /\ chanSent = [k \in Starts |-> <<>>]
  /\ chanCloseCalls = [k \in Starts |-> 0]
  /\ disconnectCalls = [k \in Starts |-> 0]
  /\ nodes = NoNodes
  /\ nUnits = 0
  /\ frameSeq = 0
  /\ lastCursorEvt = "none"
  /\ cancelled = [k \in Starts |-> FALSE]
  /\ mounted = TRUE

\* the codec has nothing to convert
Init ==
  /\ InitSession
  /\ codecPc = "idle"
  /\ codecData = <<>>
  /\ codecBlob = <<>>
  /\ codecBuffer = [ ok |-> FALSE, samples |-> <<>> ]

\* the codec is handed a frame of samples to encode, or a chunk to decode
InitCodec ==
  /\ InitSession
  /\ codecBuffer = [ ok |-> FALSE, samples |-> <<>> ]
  /\ \/ /\ codecPc = "data"
        /\ codecData \in SeqsUpTo(SampleSet, MaxLen)
        /\ codecBlob = <<>>
     \/ /\ codecPc = "chunk"
        /\ codecData = <<>>
        /\ codecBlob \in {encode(b) : b \in SeqsUpTo(ByteSet, MaxBytes)}

\* ---- actions ----

\* startSession without line 104: the cursor of the previous session stays
resetCursorSkipped(s) == [s EXCEPT !.lastCursorEvt = "start"]

\* nextStartTimeRef.current = outputCtx.currentTime (line 104)
resetCursor(s) ==
  [s EXCEPT !.nextStartTimeRef = s.outClock[s.outputContextRef],
            !.lastCursorEvt = "start"]

\* startSession up to `await getUserMedia` (lines 92-108).  The button calls
\* startSession while isActive is false (line 268), also while an earlier
\* start is in flight.  dev: which AudioContext constructor throws, if any.
StartWithin(dev, max) ==
  /\ mounted
  /\ ~isActive
  /\ nStarts < max
  /\ LET k == nStarts + 1
         s0 == [Cur EXCEPT !.nStarts = k, !.error = NoError,
                           !.status = "Initialize Audio..."]
         s1 == [s0 EXCEPT !.inState[k] = "running", !.inputContextRef = k]
         s2 == [resetCursor([s1 EXCEPT !.outState[k] = "running",
                                       !.outputContextRef = k])
                  EXCEPT !.status = "Requesting Mic...",
                         !.pc[k] = "awaitMic"]
     IN Commit(CASE dev = "input" -> startCatch(s0, k)
                        [] dev = "output" -> startCatch(s1, k)
                        [] OTHER -> s2)

Start(dev) == StartWithin(dev, MaxStarts)

\* a caller that starts again only when the previous session has settled:
\* its start() has returned, its channel is gone and its output is closed
StartSettled(dev) ==
  /\ \A k \in Starts :
        /\ pc[k] # "awaitMic"
        /\ chanState[k] \notin {"connecting", "open", "closing"}
        /\ outState[k] # "closing"
  /\ Start(dev)

\* a caller that starts again only when the previous start() has returned
StartReturned(dev) ==
  /\ \A k \in Starts : pc[k] # "awaitMic"
  /\ Start(dev)

\* getUserMedia resolves: lines 109-191.
\* graphThrows: createMediaStreamSource on an AudioContext that stopSession
\* closed meanwhile throws in some browsers; connectThrows: ai.live.connect
\* throws.
MicGranted(k, graphThrows, connectThrows) ==
  /\ pc[k] = "awaitMic"
  /\ graphThrows => inState[k] # "running"
  /\ LET s0 == [Cur EXCEPT !.micState[k] = "live"]
         s1 == [s0 EXCEPT !.analyserRef = k, !.procOn[k] = TRUE,
                          !.status = "Connecting to DHARMA..."]
         s2 == [s1 EXCEPT !.chanState[k] = "connecting",
                          !.sendAudioRef = k, !.disconnectRef = k,
                          !.isActive = TRUE, !.status = "Listening...",
                          !.pc[k] = "done"]
     IN Commit(IF graphThrows THEN startCatch(s0, k)
             ELSE IF connectThrows THEN startCatch(s1, k)
             ELSE s2)

\* getUserMedia rejects
MicDenied(k) ==
  /\ pc[k] = "awaitMic"
  /\ Commit(startCatch(Cur, k))

\* the button calls stopSession while isActive is true (line 268)
Stop ==
  /\ mounted
  /\ isActive
  /\ Commit(stopSession(Cur))

\* the cleanup of the mount effect calls stopSession (lines 34-38); the
\* callbacks of a session in flight still run afterwards
Unmount ==
  /\ mounted
  /\ mounted' = FALSE
  /\ Commit([stopSession(Cur) EXCEPT !.mounted = FALSE])

\* the channel opens: sessionPromise resolves and its reactions run
ChanOpen(k) ==
  /\ chanState[k] = "connecting"
  /\ Commit(runPending([Cur EXCEPT !.chanState[k] = "open",
                                        !.chanPending[k] = <<>>],
                            k, chanPending[k]))

\* the channel fails to open: sessionPromise never resolves; the SDK may
\* report the failure through onerror (reported) or only reject the promise
ChanOpenFails(k, reported) ==
  /\ chanState[k] = "connecting"
  /\ LET s0 == [Cur EXCEPT !.chanState[k] = "failed", !.chanPending[k] = <<>>]
     IN Commit(IF reported THEN onError(s0) ELSE s0)

\* onerror of an open channel; the channel is gone afterwards
ChanOnError(k) ==
  /\ chanState[k] \in {"open", "closing"}
  /\ Commit(onError([Cur EXCEPT !.chanState[k] = "closed"]))

\* onclose of the channel: after close(), or closed by the remote side
ChanOnClose(k) ==
  /\ chanState[k] \in {"open", "closing"}
  /\ Commit(onClose([Cur EXCEPT !.chanState[k] = "closed"]))

\* one server message: audio (bytes # 0) and/or the interrupted flag
ChanMessage(k, bytes, intr) ==
  /\ chanState[k] \in {"open", "closing"}
  /\ bytes # 0 \/ intr
  /\ (bytes # 0 /\ pcmDecodes(bytes) /\ outputContextRef # NULL)
        => nUnits < MaxUnits
  /\ Commit(onmessage(Cur, bytes, intr))

\* a scheduled unit finishes: it was stopped, or it played to its end.  While
\* its context is closing, the time that still passes is not observed, so the
\* unit may or may not reach its end before the close completes.
NodeEnded(n) ==
  /\ n \in DOMAIN nodes
  /\ ~nodes[n].ended
  /\ \/ outState[nodes[n].ctx] = "closing"
     \/ /\ outState[nodes[n].ctx] = "running"
        /\ \/ nodes[n].stopped
           \/ outClock[nodes[n].ctx] >= nodes[n].start + nodes[n].dur
  /\ Commit(onended(Cur, n))

\* processor.onaudioprocess of start k (lines 120-124)
CaptureFrame(k) ==
  /\ procOn[k]
  /\ micState[k] = "live"
  /\ inState[k] \in {"running", "closing"}
  /\ frameSeq < MaxFrames
  /\ LET s0 == [Cur EXCEPT !.frameSeq = @ + 1]
     IN Commit(IF sendAudioRef = NULL THEN s0
                    ELSE sendAudioChunk(s0, sendAudioRef, frameSeq + 1))

\* the output clock of a running context advances.  A clock is read only
\* through outputContextRef or for a unit scheduled on the context, so the
\* clock of a context that nothing observes is left alone.
ClockTick(k) ==
  /\ outState[k] = "running"
  /\ \/ outputContextRef = k
     \/ \E n \in DOMAIN nodes : nodes[n].ctx = k /\ ~nodes[n].ended
  /\ outClock[k] < MaxTime
  /\ Commit([Cur EXCEPT !.outClock[k] = @ + 1])

\* AudioContext.close() completes.  A closed output context renders nothing:
\* its source nodes are released and its clock is not read any more.
InputClosed(k) ==
  /\ inState[k] = "closing"
  /\ Commit([Cur EXCEPT !.inState[k] = "closed"])

OutputClosed(k) ==
  /\ outState[k] = "closing"
  /\ Commit([Cur EXCEPT !.outState[k] = "closed",
                             !.outClock[k] = 0,
                             !.nodes = [n \in {x \in DOMAIN @ : @[x].ctx # k}
                                          |-> @[n]]])

\* what follows a start() in flight, a stop() and the channel's lifecycle
Settle ==
  \/ \E k \in Starts, g \in BOOLEAN, c \in BOOLEAN : MicGranted(k, g, c)
  \/ \E k \in Starts : MicDenied(k)
  \/ Stop
  \/ Unmount
  \/ \E k \in Starts : ChanOpen(k)
  \/ \E k \in Starts, r \in BOOLEAN : ChanOpenFails(k, r)
  \/ \E k \in Starts : ChanOnError(k)
  \/ \E k \in Starts : ChanOnClose(k)

\* the receive/playback side of sessions that start and run without failure,
\* with a caller that lets a start() settle
Next ==
  \/ StartSettled("none")
  \/ \E k \in Starts : MicGranted(k, FALSE, FALSE)
  \/ Stop
  \/ \E k \in Starts : ChanOpen(k)
  \/ \E k \in Starts : ChanOnClose(k)
  \/ \E k \in Starts, b \in ChunkBytes \cup {0}, i \in BOOLEAN : ChanMessage(k, b, i)
  \/ \E n \in 1..MaxUnits : NodeEnded(n)
  \/ \E k \in Starts : ClockTick(k)
  \/ \E k \in Starts : OutputClosed(k)

Spec == Init /\ [][Next]_vars

\* the playback side together with every caller of stopSession: the button,
\* the unmount cleanup, onClose and onError
NextStop ==
  \/ Next
  \/ Unmount
  \/ \E k \in Starts : ChanOnError(k)

SpecStop == Init /\ [][NextStop]_vars

\* the session lifecycle, with start() offered whenever the button offers it
NextSession ==
  \/ \E dev \in {"none", "input", "output"} : Start(dev)
  \/ Settle

SpecSession == Init /\ [][NextSession]_vars

\* the capture/send side
NextCapture ==
  \/ NextSession
  \/ \E k \in Starts : CaptureFrame(k)
  \/ \E k \in Starts : InputClosed(k)

SpecCapture == Init /\ [][NextCapture]_vars

\* both directions of a session at once: capture frames go out while chunks
\* and interruptions come in.  Sessions start without failure and one after
\* the other; chunks have one length and the output clock stands still.
NextDuplex ==
  \/ StartSettled("none")
  \/ \E k \in Starts : MicGranted(k, FALSE, FALSE)
  \/ Stop
  \/ \E k \in Starts : ChanOpen(k)
  \/ \E k \in Starts : ChanOnClose(k)
  \/ \E k \in Starts, b \in {0, 2}, i \in BOOLEAN : ChanMessage(k, b, i)
  \/ \E n \in 1..MaxUnits : NodeEnded(n)
  \/ \E k \in Starts : OutputClosed(k)
  \/ \E k \in Starts : CaptureFrame(k)
  \/ \E k \in Starts : InputClosed(k)

SpecDuplex == Init /\ [][NextDuplex]_vars

\* both directions without interruption: capture frames go out while
\* well-formed chunks of either length come in and play to their end
NextRates ==
  \/ StartSettled("none")
  \/ \E k \in Starts : MicGranted(k, FALSE, FALSE)
  \/ Stop
  \/ \E k \in Starts : ChanOpen(k)
  \/ \E k \in Starts : ChanOnClose(k)
  \/ \E k \in Starts, b \in {2, 4} : ChanMessage(k, b, FALSE)
  \/ \E k \in Starts : ClockTick(k)
  \/ \E k \in Starts : OutputClosed(k)
  \/ \E k \in Starts : CaptureFrame(k)

SpecRates == Init /\ [][NextRates]_vars

\* every interleaving of the callbacks with stop() and with a start() that
\* follows as soon as the previous start() has returned, so the callbacks of
\* an earlier session's channel and nodes may still arrive in a later
\* session.  The output clock stands still.
NextInterleaved ==
  \/ StartReturned("none")
  \/ \E k \in Starts : MicGranted(k, FALSE, FALSE)
  \/ Stop
  \/ \E k \in Starts : ChanOpen(k)
  \/ \E k \in Starts : ChanOnError(k)
  \/ \E k \in Starts : ChanOnClose(k)
  \/ \E k \in Starts, b \in {0, 2}, i \in BOOLEAN : ChanMessage(k, b, i)
  \/ \E n \in 1..MaxUnits : NodeEnded(n)
  \/ \E k \in Starts : OutputClosed(k)

SpecInterleaved == Init /\ [][NextInterleaved]_vars

\* a caller that presses start whenever the button offers it, also while an
\* earlier start() is waiting for the microphone, with the callbacks of
\* earlier channels and nodes still arriving.  The output clock stands still.
NextRestart ==
  \/ StartWithin("none", MaxStarts + MaxRestarts)
  \/ \E k \in Starts : MicGranted(k, FALSE, FALSE)
  \/ Stop
  \/ \E k \in Starts : ChanOpen(k)
  \/ \E k \in Starts : ChanOnClose(k)
  \/ \E k \in Starts, b \in {0, 2}, i \in BOOLEAN : ChanMessage(k, b, i)
  \/ \E n \in 1..MaxUnits : NodeEnded(n)
  \/ \E k \in Starts : OutputClosed(k)

SpecRestart == Init /\ [][NextRestart]_vars

\* createPcmBlob on a frame of samples
Encode ==
  /\ codecPc = "data"
  /\ codecBlob' = pcmData(codecData)
  /\ codecPc' = "blob"
  /\ UNCHANGED << codecData, codecBuffer >>
  /\ UNCHANGED sessionVars

\* pcmToAudioBuffer on a chunk from the channel, or on the blob just encoded
Decode ==
  /\ codecPc \in {"chunk", "blob"}
  /\ codecBuffer' = pcmToAudioBuffer(codecBlob)
  /\ codecPc' = IF codecPc = "blob" THEN "looped" ELSE "buffer"
  /\ UNCHANGED << codecData, codecBlob >>
  /\ UNCHANGED sessionVars

\* the codec alone
NextCodec == Encode \/ Decode

SpecCodec == InitCodec /\ [][NextCodec]_vars

\* sessions whose channel reports an error, while it opens or once it is
\* open, with chunks and interruptions coming in.  The output clock stands
\* still.
NextError ==
  \/ StartSettled("none")
  \/ \E k \in Starts : MicGranted(k, FALSE, FALSE)
  \/ Stop
  \/ Unmount
  \/ \E k \in Starts : ChanOpen(k)
  \/ \E k \in Starts : ChanOpenFails(k, TRUE)
  \/ \E k \in Starts : ChanOnError(k)
  \/ \E k \in Starts : ChanOnClose(k)
  \/ \E k \in Starts, b \in ChunkBytes \cup {0}, i \in BOOLEAN : ChanMessage(k, b, i)
  \/ \E n \in 1..MaxUnits : NodeEnded(n)
  \/ \E k \in Starts : OutputClosed(k)

SpecError == Init /\ [][NextError]_vars

\* ---- properties ----

\* the step schedules a playback unit
Scheduled == nUnits' = nUnits + 1

\* the step is a call of stopSession by the button or by the cleanup
StopCalled == Stop \/ Unmount

\* the step handles a server message with the interrupted flag
Interrupted ==
  \E k \in Starts, b \in ChunkBytes \cup {0} : ChanMessage(k, b, TRUE)

\* the unit scheduled before this step, and its end
prevUnit == nodes[nUnits]

prevEnd == prevUnit.start + prevUnit.dur

\* the unit this step scheduled
newUnit == nodes'[nUnits']

\* C1: no overlap.  When a chunk is scheduled and the latest cursor event
\* before it was the scheduling of the previous unit (no flush and no start in
\* between), the new unit is on the same output context and starts no earlier
\* than the previous unit ends, whatever the output clock did in between.
C1_NoOverlap ==
  [][ (Scheduled /\ lastCursorEvt = "unit")
        => /\ nUnits \in DOMAIN nodes
           /\ newUnit.ctx = prevUnit.ctx
           /\ newUnit.start >= prevEnd ]_vars

\* two units scheduled one after the other, with an underrun between them
C1_Witness ==
  /\ nUnits >= 2
  /\ lastCursorEvt = "unit"
  /\ {nUnits - 1, nUnits} \subseteq Range(audioQueueRef)
  /\ nodes[nUnits].start > nodes[nUnits - 1].start + nodes[nUnits - 1].dur

\* C2: gapless under pace.  With no flush or start since the previous unit, a
\* chunk that arrives while the output clock has not passed the end of the
\* previous unit starts exactly at that end; a chunk that arrives later starts
\* exactly at the output clock.
C2_Gapless ==
  [][ (Scheduled /\ lastCursorEvt = "unit")
        => LET now == outClock[outputContextRef]
           IN newUnit.start = IF now <= prevEnd THEN prevEnd ELSE now ]_vars

\* a unit that arrived while its predecessor had not finished
C2_Witness ==
  /\ nUnits >= 2
  /\ lastCursorEvt = "unit"
  /\ {nUnits - 1, nUnits} \subseteq Range(audioQueueRef)
  /\ nodes[nUnits].start = nodes[nUnits - 1].start + nodes[nUnits - 1].dur
  /\ outClock[nodes[nUnits].ctx] < nodes[nUnits].start

\* C3: flush on interrupt.  After a message with the interrupted flag is
\* handled, the active-unit set is empty and every unit that was in it has
\* been stopped; when the session has an output context, the cursor equals
\* that context's clock, whatever the cursor was before.
C3_FlushOnInterrupt ==
  [][ Interrupted
        => /\ audioQueueRef' = <<>>
           /\ \A n \in Range(audioQueueRef) : nodes'[n].stopped
           /\ outputContextRef # NULL
                => nextStartTimeRef' = outClock'[outputContextRef'] ]_vars

\* the latest cursor event is a flush, and it stopped a unit that would have
\* played on beyond the clock the cursor now has
C3_Witness ==
  /\ lastCursorEvt = "flush"
  /\ outputContextRef # NULL
  /\ audioQueueRef = <<>>
  /\ nextStartTimeRef = outClock[outputContextRef]
  /\ \E n \in DOMAIN nodes :
        /\ nodes[n].stopped /\ ~nodes[n].ended
        /\ nodes[n].ctx = outputContextRef
        /\ nodes[n].start + nodes[n].dur > nextStartTimeRef

\* C4: chunk, interruption, chunk.  A chunk scheduled when the latest cursor
\* event before it was a flush starts at the output clock of its arrival.
C4_StartsNowAfterFlush ==
  [][ (Scheduled /\ lastCursorEvt = "flush")
        => newUnit.start = outClock[outputContextRef] ]_vars

\* chunk B was scheduled after the flush and starts before the end that the
\* stopped chunk A had
C4_Witness ==
  /\ nUnits >= 2
  /\ lastCursorEvt = "unit"
  /\ {nUnits - 1, nUnits} \subseteq DOMAIN nodes
  /\ nodes[nUnits - 1].stopped /\ ~nodes[nUnits].stopped
  /\ nodes[nUnits - 1].ctx = nodes[nUnits].ctx
  /\ nodes[nUnits].start < nodes[nUnits - 1].start + nodes[nUnits - 1].dur

\* C5: after stop() no device handle remains open: no microphone stream is
\* live and no audio context is running.
C5_StopReleasesDevices ==
  [][ StopCalled => \A k \in Starts : /\ micState'[k] # "live"
                                /\ inState'[k] # "running"
                                /\ outState'[k] # "running" ]_vars

\* C6: after stop() no unit scheduled before it can still play: each has been
\* stopped, has ended, or its output context is closed.
C6_StopStopsUnits ==
  [][ StopCalled => \A n \in DOMAIN nodes' : \/ nodes'[n].stopped
                                       \/ nodes'[n].ended
                                       \/ outState'[nodes'[n].ctx] = "closed" ]_vars

\* C7: a start() that a stop() overtook while it was suspended never opens a
\* channel (so never shows Listening), never installs its send or disconnect
\* handle and keeps no microphone stream.
C7_StopCancelsStart ==
  \A k \in Starts :
     cancelled[k] => /\ chanState[k] = "none"
                     /\ sendAudioRef # k
                     /\ disconnectRef # k
                     /\ micState[k] # "live"

\* the session after a stop(), and after a second stop() that follows it
afterStop == Cur'

afterStopTwice == stopSession(afterStop)

\* C8: idempotent stop.  After a stop() from any state the handles are null,
\* the active-unit set is empty and the session is inactive, and a second
\* stop() changes nothing: it issues no further disconnect or close and leaves
\* every handle, device and channel as the first left it.
C8_StopIdempotent ==
  [][ StopCalled
        => /\ afterStopTwice = afterStop
           /\ afterStop.disconnectRef = NULL /\ afterStop.sendAudioRef = NULL
           /\ afterStop.inputContextRef = NULL
           /\ afterStop.outputContextRef = NULL
           /\ afterStop.audioQueueRef = <<>> /\ ~afterStop.isActive
           /\ \A k \in Starts : afterStop.disconnectCalls[k] <= 1 ]_vars

\* stop() has torn down a session: its channel was disconnected once, its
\* output context is being closed
C8_Witness ==
  /\ \E k \in Starts : /\ disconnectCalls[k] = 1
                       /\ outState[k] = "closing"
                       /\ chanState[k] = "closing"
  /\ disconnectRef = NULL /\ outputContextRef = NULL /\ ~isActive
  /\ status = "Disconnected"

\* start k ran into a failure: it took the catch block, or its channel
\* failed to open
StartFailed(k) == pc[k] = "done" /\ chanState[k] \in {"none", "failed"}

\* start k reached lines 184-188: its channel exists exactly from then on
Listened(k) == chanState[k] # "none"

\* C9: a start() that failed never was in Listening and holds no resource:
\* no running audio context, no live microphone stream, no channel.
C9_FailedStartReleases ==
  \A k \in Starts :
     StartFailed(k) => /\ ~Listened(k)
                       /\ inState[k] # "running"
                       /\ outState[k] # "running"
                       /\ micState[k] # "live"

\* C10: the session shows Listening only when its channel has opened.
C10_ListeningOnlyWhenOpen ==
  \A k \in Starts :
     (mounted /\ isActive /\ status = "Listening..." /\ disconnectRef = k)
        => chanState[k] \notin {"connecting", "failed"}

\* a session is in progress: a start() is waiting for the microphone
\* (Connecting) or the session is active (Listening)
SessionInProgress == isActive \/ \E k \in Starts : pc[k] = "awaitMic"

\* the step is a call of startSession
StartCalled ==
  \E dev \in {"none", "input", "output"} :
     StartWithin(dev, MaxStarts + MaxRestarts)

\* C11: a start() issued while a session is Connecting or Listening is
\* rejected: it creates no audio context, microphone stream or channel and
\* leaves the device handles, the channel handles and the playback cursor of
\* the session in progress as they were.
C11_RedundantStartRejected ==
  [][ (SessionInProgress /\ StartCalled)
        => UNCHANGED << inState, outState, micState, chanState,
                        inputContextRef, outputContextRef, sendAudioRef,
                        disconnectRef, nextStartTimeRef >> ]_vars

\* the session shows Listening and its channel is open
ListeningOpen ==
  /\ isActive
  /\ sendAudioRef # NULL
  /\ chanState[sendAudioRef] = "open"

\* the step is one onaudioprocess event
Captured == frameSeq' = frameSeq + 1

\* C12: handling a message with the interrupted flag changes only the
\* playback units, the active-unit set and the cursor: the channel, its send
\* and disconnect handles, both contexts, the microphone and the active flag
\* are as before; and a capture frame that arrives after the flush, in
\* Listening with the channel open, is forwarded on the channel.
C12_InterruptKeepsSession ==
  [][ /\ Interrupted
        => UNCHANGED << isActive, status, error, inputContextRef,
                        outputContextRef, sendAudioRef, disconnectRef,
                        analyserRef, pc, inState, outState, micState, procOn,
                        chanState, chanPending, chanSent, chanCloseCalls,
                        disconnectCalls >>
      /\ (Captured /\ lastCursorEvt = "flush" /\ ListeningOpen)
        => chanSent'[sendAudioRef]
             = Append(chanSent[sendAudioRef], createPcmBlob(frameSeq')) ]_vars

\* a flush stopped a unit, the session is still Listening on an open channel
\* with both contexts running, and a capture frame has gone out
C12_Witness ==
  /\ lastCursorEvt = "flush"
  /\ ListeningOpen
  /\ status = "Listening..."
  /\ disconnectRef = sendAudioRef
  /\ inputContextRef = sendAudioRef /\ inState[sendAudioRef] = "running"
  /\ outputContextRef = sendAudioRef /\ outState[sendAudioRef] = "running"
  /\ \E n \in DOMAIN nodes : nodes[n].stopped /\ nodes[n].ctx = outputContextRef
  /\ chanSent[sendAudioRef] # <<>>

\* the step is the onclose callback of the channel of start k
ClosedReported(k) == ChanOnClose(k)

\* C13: when the channel of a Listening session reports closed, or stop() is
\* called in Listening, the session ends in Closed: not active, both devices
\* of the session released (no context running, no microphone stream live),
\* the active-unit set empty, and the channel closed or closing; close is
\* issued once by stop() on a channel that is open, and not at all on a
\* channel that has reported closed.
C13_ClosedTeardown ==
  [][ \A k \in Starts :
        (isActive /\ disconnectRef = k /\ (Stop \/ ClosedReported(k)))
          => /\ ~isActive' /\ status' = "Disconnected"
             /\ audioQueueRef' = <<>>
             /\ inState'[k] # "running" /\ outState'[k] # "running"
             /\ micState'[k] # "live"
             /\ chanState[k] = "open" => chanState'[k] \in {"closing", "closed"}
             /\ (Stop /\ chanState[k] = "open")
                  => chanCloseCalls'[k] = chanCloseCalls[k] + 1
             /\ ClosedReported(k)
                  => chanCloseCalls'[k] = chanCloseCalls[k] ]_vars

\* the step is the onerror callback of a channel, open or still opening
ErrorReported ==
  \E k \in Starts : ChanOnError(k) \/ ChanOpenFails(k, TRUE)

\* what a teardown leaves of the session, the channel and the error aside
TornDown(s) ==
  << s.isActive, s.status, s.inputContextRef, s.outputContextRef,
     s.sendAudioRef, s.disconnectRef, s.analyserRef, s.audioQueueRef,
     s.nextStartTimeRef, s.inState, s.outState, s.micState, s.procOn,
     s.nodes, s.pc, s.disconnectCalls >>

MalformedChunks == {b \in ChunkBytes : b % 2 = 1}

ValidChunks == ChunkBytes \ MalformedChunks

\* C15: a chunk that fails to decode is dropped: handling it leaves the whole
\* session as it was (cursor, active-unit set, units, active flag, status,
\* channel), and a valid chunk or an interruption that comes after it is
\* handled exactly as if the malformed chunk had not been delivered.
C15_MalformedDropped ==
  \A k \in Starts :
     chanState[k] \in {"open", "closing"}
       => \A m \in MalformedChunks :
             LET dropped == onmessage(Cur, m, FALSE)
             IN /\ dropped = Cur
                /\ \A b \in ValidChunks, i \in BOOLEAN :
                      onmessage(dropped, b, i) = onmessage(Cur, b, i)
                /\ onmessage(Cur, m, TRUE) = onmessage(Cur, 0, TRUE)

\* a Listening session on an open channel with a unit playing and the cursor
\* ahead of the clock: a chunk that arrives is scheduled at the cursor.  A
\* dropped chunk leaves no trace, so the state after it is this state.
C15_Witness ==
  /\ ListeningOpen
  /\ outputContextRef = sendAudioRef
  /\ audioQueueRef # <<>>
  /\ nextStartTimeRef > outClock[outputContextRef]
  /\ MalformedChunks # {}
  /\ nUnits < MaxUnits

\* the 16-bit values of an encoded blob
blobInt16(base64) ==
  LET bytes == decode(base64)
  IN [i \in 1..(Len(bytes) \div 2) |-> dataInt16(bytes, i)]

\* C17: encoding is the asymmetric quantization.  For every sample x of the
\* frame, with c = x clamped to [-1, 1], the encoded value is c * 32768
\* truncated toward zero when c < 0 and c * 32767 truncated toward zero when
\* c >= 0; it lies in [-32768, 32767], -1 gives -32768 and +1 gives 32767,
\* and an empty frame gives an empty blob.  (c * 32768 is compared in halves,
\* c * 16384 against SampleDen / 2, to stay within 32-bit integers.)
C17_AsymmetricQuantization ==
  codecPc = "blob"
    => LET q == blobInt16(codecBlob)
       IN /\ Len(q) = Len(codecData)
          /\ codecData = <<>> => codecBlob = <<>>
          /\ \A i \in 1..Len(codecData) :
                LET x == codecData[i]
                    c == IF x < -SampleDen THEN -SampleDen
                         ELSE IF x > SampleDen THEN SampleDen ELSE x
                    half == SampleDen \div 2
                IN /\ q[i] \in -32768..32767
                   /\ c < 0 => /\ q[i] * half >= c * 16384
                               /\ (q[i] - 1) * half < c * 16384
                   /\ c >= 0 => /\ q[i] * SampleDen <= c * 32767
                                /\ q[i] * SampleDen > c * 32767 - SampleDen
                   /\ c = -SampleDen => q[i] = -32768
                   /\ c = SampleDen => q[i] = 32767

\* a frame with a sample beyond each end of the range and a sample whose
\* scaled value has a fraction has been encoded
C17_Witness ==
  /\ codecPc = "blob"
  /\ Len(codecData) = 2
  /\ codecData[1] < -SampleDen
  /\ codecData[2] = SampleDen \div 2 + 1
  /\ blobInt16(codecBlob) = << -32768, 16383 >>

\* the frame went through createPcmBlob and then pcmToAudioBuffer
Looped == codecPc = "looped"

\* |decoded - s| for sample s (over SampleDen) and decoded value d (over
\* 32768), in units of 1 / SampleDen
roundTripError(s, d) ==
  LET e == d * (SampleDen \div 32768) - s IN IF e >= 0 THEN e ELSE -e

\* every sample of the frame lies in [-1, 1]
InRange == \A i \in 1..Len(codecData) : codecData[i] \in -SampleDen..SampleDen

\* C16 as stated, on the frames most favourable to it (not empty, every
\* sample in [-1, 1]): the round trip yields a sequence of the same length
\* with |decoded[i] - s[i]| <= 1/32768 for every i.
C16_RoundTripBound ==
  (Looped /\ codecData # <<>> /\ InRange)
    => /\ codecBuffer.ok
       /\ Len(codecBuffer.samples) = Len(codecData)
       /\ \A i \in 1..Len(codecData) :
             roundTripError(codecData[i], codecBuffer.samples[i])
               <= SampleDen \div 32768

\* C16 as amended: for every non-empty sequence of samples in [-1, 1] the
\* round trip yields a sequence of the same length; a decoded sample is never
\* further from zero than the sample, and it differs from it by less than
\* 1/32768 for a negative sample and by less than 2/32768 otherwise.
C16_RoundTripBoundAmended ==
  (Looped /\ codecData # <<>> /\ InRange)
    => /\ codecBuffer.ok
       /\ Len(codecBuffer.samples) = Len(codecData)
       /\ \A i \in 1..Len(codecData) :
             LET s == codecData[i]
                 d == codecBuffer.samples[i] * (SampleDen \div 32768)
             IN IF s < 0 THEN s <= d /\ d - s < SampleDen \div 32768
                ELSE d <= s /\ s - d < 2 * (SampleDen \div 32768)

\* the round trip of a frame holding 0.5 + 2^-16 and -1: the first comes back
\* as 16383/32768, which is 1.5/32768 below it
C16_Witness ==
  /\ Looped
  /\ codecData = << SampleDen \div 2 + 1, -SampleDen >>
  /\ codecBuffer.ok
  /\ codecBuffer.samples = << 16383, -32768 >>
  /\ roundTripError(codecData[1], codecBuffer.samples[1]) = 3

\* a chunk from the channel has been through pcmToAudioBuffer
Decoded == codecPc = "buffer"

\* the bytes of the chunk
chunkBytes == decode(codecBlob)

\* the buffer holds n samples, sample i being the 16-bit value of bytes
\* 2i-1 (low) and 2i (high), over 32768
HoldsSamples(n) ==
  /\ codecBuffer.ok
  /\ Len(codecBuffer.samples) = n
  /\ \A i \in 1..n :
        /\ codecBuffer.samples[i] \in -32768..32767
        /\ (codecBuffer.samples[i]
              - (chunkBytes[2 * i - 1] + 256 * chunkBytes[2 * i])) % 65536 = 0

\* the decoding failed and yielded no samples
DecodeFailed == ~codecBuffer.ok /\ codecBuffer.samples = <<>>

\* C18 as stated: decoding a chunk of odd byte length fails and yields no
\* samples; decoding a chunk of even byte length 2n never fails and yields
\* exactly n samples, each its 16-bit value divided by 32768.
C18_DecodeByLength ==
  Decoded
    => IF Len(chunkBytes) % 2 = 1 THEN DecodeFailed
       ELSE HoldsSamples(Len(chunkBytes) \div 2)

\* C18 as amended: decoding a chunk of odd byte length, or of length zero,
\* fails and yields no samples; decoding a chunk of even byte length 2n with
\* n >= 1 never fails and yields exactly n samples, each its 16-bit value
\* divided by 32768.
C18_DecodeByLengthAmended ==
  Decoded
    => IF Len(chunkBytes) % 2 = 1 \/ Len(chunkBytes) = 0 THEN DecodeFailed
       ELSE HoldsSamples(Len(chunkBytes) \div 2)

\* the chunk 00 80 has been decoded to the one sample -32768/32768
C18_Witness ==
  /\ Decoded
  /\ chunkBytes = << 0, 128 >>
  /\ codecBuffer = [ ok |-> TRUE, samples |-> << -32768 >> ]

\* the frames of the chunks that channel k has received
sentFrames(k) == [i \in 1..Len(chanSent[k]) |-> chanSent[k][i].frame]

\* no frame was sent twice, on one channel or on two
NoFrameTwice ==
  /\ \A k \in Starts : \A i, j \in 1..Len(chanSent[k]) :
        sentFrames(k)[i] = sentFrames(k)[j] => i = j
  /\ \A k, l \in Starts :
        k # l => Range(sentFrames(k)) \cap Range(sentFrames(l)) = {}

\* C19: a capture frame delivered while the session is Listening on an open
\* channel puts exactly one chunk on that channel, of 2 * 4096 = 8192 bytes
\* and tagged audio/pcm;rate=16000, and nothing on any other channel; no
\* frame ever reaches a channel twice, so k frames give k chunks.
C19_OneChunkPerFrame ==
  [][ /\ (Captured /\ ListeningOpen)
        => /\ Len(chanSent'[sendAudioRef]) = Len(chanSent[sendAudioRef]) + 1
           /\ SubSeq(chanSent'[sendAudioRef], 1, Len(chanSent[sendAudioRef]))
                = chanSent[sendAudioRef]
           /\ LET chunk == chanSent'[sendAudioRef][Len(chanSent'[sendAudioRef])]
              IN /\ chunk.frame = frameSeq'
                 /\ chunk.bytes = 8192
                 /\ chunk.mimeType = "audio/pcm;rate=16000"
           /\ \A k \in Starts \ {sendAudioRef} : chanSent'[k] = chanSent[k]
           /\ chanPending' = chanPending
      /\ NoFrameTwice' ]_vars

\* two frames were captured in Listening and the channel holds their two
\* chunks
C19_Witness ==
  /\ ListeningOpen
  /\ frameSeq = 2
  /\ sentFrames(sendAudioRef) = << 1, 2 >>

\* the frames whose sending waits for channel k to open, in the order in
\* which the reactions were registered on sessionPromise
RECURSIVE pendingFrames(_)
pendingFrames(ops) ==
  IF ops = <<>> THEN <<>>
  ELSE IF Head(ops).t = "send"
  THEN << Head(ops).blob.frame >> \o pendingFrames(Tail(ops))
  ELSE pendingFrames(Tail(ops))

\* the sequence of frame numbers is strictly increasing
Increasing(q) == \A i, j \in 1..Len(q) : i < j => q[i] < q[j]

\* the waiting frames that reach the channel when it opens: those registered
\* before the first waiting close
RECURSIVE deliveredFrames(_)
deliveredFrames(ops) ==
  IF ops = <<>> \/ Head(ops).t = "close" THEN <<>>
  ELSE << Head(ops).blob.frame >> \o deliveredFrames(Tail(ops))

\* C20: frames are numbered in the order in which onaudioprocess hands them
\* to the send path.  On every channel the chunks received are in that order,
\* the frames still waiting for the channel to open are in that order and
\* later than every frame received, and when the channel opens the waiting
\* frames are received in the order in which they were handed over.
C20_SendOrder ==
  [][ \A k \in Starts :
        /\ Increasing(sentFrames(k) \o pendingFrames(chanPending[k]))
        /\ Increasing(sentFrames(k) \o pendingFrames(chanPending[k]))'
        /\ ChanOpen(k)
             => sentFrames(k)' = sentFrames(k) \o deliveredFrames(chanPending[k]) ]_vars

\* frame 1 was handed over while the channel was opening, frame 2 after it
\* had opened (no frame waits any more), and the channel has received 1, 2
C20_Witness ==
  \E k \in Starts :
     /\ chanState[k] = "open"
     /\ chanPending[k] = <<>>
     /\ sentFrames(k) = << 1, 2 >>

\* the step handles a server message that carries a chunk of b bytes
ChunkArrived(b) == \E k \in Starts, i \in BOOLEAN : ChanMessage(k, b, i)

\* every chunk handed to channel k, received or waiting for it to open
outboundChunks(k) ==
  Range(chanSent[k])
    \cup {chanPending[k][i].blob :
            i \in {j \in 1..Len(chanPending[k]) : chanPending[k][j].t = "send"}}

\* C21: the two rates are kept apart.  A unit scheduled from a chunk of b
\* bytes lasts (b / 2) / 24000 s, whatever the capture rate is; a unit
\* scheduled while its predecessor has not finished, with no flush or start
\* in between, starts exactly that predecessor's sample count / 24000 s after
\* it; and every chunk handed to a channel is tagged with the rate 16000.
C21_RatesApart ==
  [][ /\ \A b \in ChunkBytes :
           (ChunkArrived(b) /\ Scheduled)
              => /\ newUnit.dur * 24000 = (b \div 2) * OutputRate
                 /\ (lastCursorEvt = "unit"
                       /\ outClock[outputContextRef] <= prevEnd)
                      => newUnit.start = prevUnit.start + prevUnit.dur
      /\ \A k \in Starts : \A c \in outboundChunks(k)' :
            c.mimeType = "audio/pcm;rate=16000" ]_vars

\* two chunks of two samples were scheduled back to back, the second two
\* sample times after the first, and a capture frame has gone out
C21_Witness ==
  /\ nUnits >= 2
  /\ {nUnits - 1, nUnits} \subseteq DOMAIN nodes
  /\ nodes[nUnits - 1].dur = 2 /\ nodes[nUnits].dur = 2
  /\ nodes[nUnits].ctx = nodes[nUnits - 1].ctx
  /\ nodes[nUnits].start = nodes[nUnits - 1].start + 2
  /\ ~nodes[nUnits - 1].stopped
  /\ \E k \in Starts : outboundChunks(k) # {}

\* the step handles a server message that carries a chunk and no interruption
ChunkOnly == \E k \in Starts, b \in ChunkBytes : ChanMessage(k, b, FALSE)

\* the step runs stopSession: the button, the cleanup, onClose or onError
TearsDown ==
  \/ StopCalled
  \/ \E k \in Starts : ChanOnClose(k) \/ ChanOnError(k)

\* the step is the completion callback of a unit
Completed == \E n \in DOMAIN nodes : NodeEnded(n)

\* C22: the callbacks do not race.  Under every interleaving of inbound
\* audio, completion, interruption, close and error callbacks with start()
\* and stop(), a step that schedules a unit from a chunk reads the cursor the
\* previous step left, starts the unit at the later of that cursor and the
\* output clock, appends it to the active-unit set and leaves the cursor at
\* the unit's start plus its duration; and the cursor is changed by nothing
\* but the scheduling of a unit, a flush and a start(), the active-unit set by
\* nothing but a scheduling, a completion, a flush and a teardown.
C22_NoRace ==
  [][ /\ (Scheduled /\ ChunkOnly)
        => /\ newUnit.start
                = Max(outClock[outputContextRef], nextStartTimeRef)
           /\ nextStartTimeRef' = newUnit.start + newUnit.dur
           /\ audioQueueRef' = Append(audioQueueRef, nUnits')
           /\ newUnit.ctx = outputContextRef
      /\ nextStartTimeRef' # nextStartTimeRef
           => Scheduled \/ Interrupted \/ StartCalled
      /\ audioQueueRef' # audioQueueRef
           => Scheduled \/ Interrupted \/ Completed \/ TearsDown ]_vars

\* between the scheduling of two units an interruption and the completion
\* callback of the first unit have run: the first unit was stopped and has
\* ended, the second is alone in the active-unit set, and the cursor stands
\* at its end
C22_Witness ==
  /\ nUnits >= 2
  /\ lastCursorEvt = "unit"
  /\ {nUnits - 1, nUnits} \subseteq DOMAIN nodes
  /\ nodes[nUnits - 1].stopped /\ nodes[nUnits - 1].ended
  /\ nodes[nUnits - 1].ctx = nodes[nUnits].ctx
  /\ audioQueueRef = << nUnits >>
  /\ nextStartTimeRef = nodes[nUnits].start + nodes[nUnits].dur

\* the sequence q without the unit n
Without(q, n) == SelectSeq(q, LAMBDA x : x # n)

\* C23: a unit enters the active-unit set when it is scheduled and leaves it
\* only by its own completion callback, by a flush or by a teardown.  The
\* completion callback of unit n removes n and no other unit and leaves the
\* cursor alone; when n is no longer in the set (a flush or a stop removed
\* it) the callback leaves the set as it is, units scheduled after the flush
\* included.
C23_UnitOwnership ==
  [][ /\ (Scheduled /\ ChunkOnly) => nUnits' \in Range(audioQueueRef')
      /\ \A n \in DOMAIN nodes :
           /\ (n \in Range(audioQueueRef) /\ n \notin Range(audioQueueRef'))
                => NodeEnded(n) \/ Interrupted \/ TearsDown
           /\ NodeEnded(n)
                => /\ audioQueueRef' = Without(audioQueueRef, n)
                   /\ n \notin Range(audioQueueRef) => audioQueueRef' = audioQueueRef
                   /\ nextStartTimeRef' = nextStartTimeRef
                   /\ lastCursorEvt' = lastCursorEvt ]_vars

\* unit 1 was flushed and its completion callback has fired since; unit 2,
\* scheduled after the flush, is still in the active-unit set and playing
C23_Witness ==
  /\ {1, 2} \subseteq DOMAIN nodes
  /\ nodes[1].stopped /\ nodes[1].ended
  /\ ~nodes[2].stopped /\ ~nodes[2].ended
  /\ nodes[1].ctx = nodes[2].ctx
  /\ outState[nodes[2].ctx] = "running"
  /\ audioQueueRef = << 2 >>

\* the step is a callback of the channel of start k
ChannelCallback(k) ==
  \/ ChanOnClose(k)
  \/ ChanOnError(k)
  \/ \E b \in ChunkBytes \cup {0}, i \in BOOLEAN : ChanMessage(k, b, i)

\* session k was stopped and a later session is active
StaleFor(k) ==
  /\ disconnectCalls[k] > 0
  /\ isActive
  /\ disconnectRef \notin {NULL, k}

\* C24: a callback of the channel of an earlier, stopped session leaves the
\* later session alone: its active flag, status, error, handles, contexts,
\* cursor, active-unit set and units are as before.
C24_NoStaleCallback ==
  [][ \A k \in Starts :
        (StaleFor(k) /\ ChannelCallback(k))
          => UNCHANGED << isActive, status, error, inputContextRef,
                          outputContextRef, sendAudioRef, disconnectRef,
                          analyserRef, nextStartTimeRef, audioQueueRef,
                          nodes, nUnits, inState, outState >> ]_vars

\* the session was torn down by stopSession and no start() has been called
\* since: the status is the one stopSession leaves and start() replaces
AfterTeardown == status = "Disconnected" /\ ~isActive

\* C25: after a stop() or a teardown by onClose or onError and before the
\* next start(), a server message, with a chunk of any length, with the
\* interrupted flag or with both, changes nothing: no unit is scheduled and
\* the cursor, the active-unit set and every handle are as before.
C25_NoEffectAfterStop ==
  AfterTeardown
    => \A b \in ChunkBytes \cup {0}, i \in BOOLEAN :
          (b # 0 \/ i) => onmessage(Cur, b, i) = Cur

\* a session with a unit scheduled was stopped; its channel is still closing
\* and can deliver, and the cursor still stands at the end of the unit
C25_Witness ==
  /\ AfterTeardown
  /\ \E k \in Starts : chanState[k] = "closing" /\ disconnectCalls[k] = 1
  /\ nUnits < MaxUnits
  /\ nextStartTimeRef > 0
  /\ outputContextRef = NULL

\* among the reactions waiting for a channel to open, no send is registered
\* after a close
NoSendAfterClose(ops) ==
  \A i, j \in 1..Len(ops) : (i < j /\ ops[i].t = "close") => ops[j].t # "send"

\* C26: a capture frame that arrives while no send handle is installed is
\* dropped: nothing is handed to any channel.  Once stop() has requested the
\* close of a channel, no later frame is handed to that channel, and once
\* close() has been issued on the channel it receives nothing more.
C26_NoFrameOutsideListening ==
  [][ /\ (Captured /\ sendAudioRef = NULL)
        => chanSent' = chanSent /\ chanPending' = chanPending
      /\ \A k \in Starts :
           /\ (Captured /\ disconnectCalls[k] > 0)
                => chanSent'[k] = chanSent[k] /\ chanPending'[k] = chanPending[k]
           /\ chanCloseCalls[k] > 0 => chanSent'[k] = chanSent[k]
           /\ NoSendAfterClose(chanPending[k])' ]_vars

\* frame 1 went out on a channel that stop() has closed since; frame 2 came
\* after the stop and was handed to no channel
C26_Witness ==
  /\ frameSeq = 2
  /\ sendAudioRef = NULL
  /\ \E k \in Starts : disconnectCalls[k] = 1 /\ sentFrames(k) = << 1 >>
  /\ \A k \in Starts :
        2 \notin Range(sentFrames(k)) \cup Range(pendingFrames(chanPending[k]))

\* the step handles a server message with both a chunk and the interrupted
\* flag
ChunkAndInterrupt == \E k \in Starts, b \in ChunkBytes : ChanMessage(k, b, TRUE)

\* C27: when one message carries a chunk and the interrupted flag, the chunk
\* is handled first and the flush second.  If the chunk is scheduled, its
\* unit is placed as for a chunk alone and is stopped by the flush of the
\* same step; in any case, in a session with an output context, the
\* active-unit set is empty afterwards, no unit of it is left unstopped and
\* the cursor equals the output clock.
C27_AudioThenInterrupt ==
  [][ ChunkAndInterrupt
        => /\ Scheduled
                => /\ newUnit.stopped
                   /\ newUnit.ctx = outputContextRef
                   /\ newUnit.start
                        = Max(outClock[outputContextRef], nextStartTimeRef)
           /\ audioQueueRef' = <<>>
           /\ \A n \in Range(audioQueueRef) : nodes'[n].stopped
           /\ outputContextRef # NULL
                => nextStartTimeRef' = outClock'[outputContextRef'] ]_vars

\* the latest unit was placed behind a unit still playing and was stopped
\* together with it by a flush; the cursor is back at the clock, before the
\* start the latest unit had
C27_Witness ==
  /\ nUnits >= 2
  /\ lastCursorEvt = "flush"
  /\ {nUnits - 1, nUnits} \subseteq DOMAIN nodes
  /\ nodes[nUnits - 1].stopped /\ nodes[nUnits].stopped
  /\ nodes[nUnits].ctx = outputContextRef
  /\ nodes[nUnits].start = nodes[nUnits - 1].start + nodes[nUnits - 1].dur
  /\ audioQueueRef = <<>>
  /\ nextStartTimeRef = outClock[outputContextRef]
  /\ nextStartTimeRef < nodes[nUnits].start

\* C28: no unit is scheduled in the past and the cursor covers the active
\* units: a unit scheduled by a step starts no earlier than the output clock
\* of that step, and in every state the cursor is at or beyond the end (start
\* plus duration) of every unit in the active-unit set.
C28_CursorCoversUnits ==
  [][ /\ Scheduled => newUnit.start >= outClock[outputContextRef]
      /\ \A n \in Range(audioQueueRef') :
            nextStartTimeRef' >= nodes'[n].start + nodes'[n].dur ]_vars

\* C29: every start() that opens its output context leaves the cursor at the
\* clock of that context, on which no unit has been scheduled yet; and the
\* first unit scheduled after a start() starts at the output clock of its
\* arrival, on the context that start() opened, whatever cursor and units the
\* session before left.
C29_StartResetsCursor ==
  [][ /\ (StartCalled /\ outputContextRef' # NULL)
        => /\ outputContextRef' = nStarts'
           /\ nextStartTimeRef' = outClock'[outputContextRef']
           /\ \A n \in DOMAIN nodes' : nodes'[n].ctx # outputContextRef'
      /\ (Scheduled /\ lastCursorEvt = "start")
        => /\ newUnit.ctx = outputContextRef
           /\ newUnit.start = outClock[outputContextRef] ]_vars

\* the second session's first unit: unit 1 played in the first session, whose
\* context is closed, and left the cursor beyond zero; unit 2 was scheduled
\* on the second context at its clock, zero
C29_Witness ==
  /\ nStarts = 2 /\ outputContextRef = 2
  /\ outState[1] = "closed" /\ outState[2] = "running"
  /\ nUnits = 2
  /\ DOMAIN nodes = {2}
  /\ nodes[2].ctx = 2
  /\ nodes[2].start = 0
  /\ lastCursorEvt = "unit"

\* C30: the active flag implies a complete session.  When the session is
\* active, the input context, the output context, the send handle and the
\* disconnect handle are all installed and are those of one start() call;
\* when it is not active, no send or disconnect handle is installed, and a
\* context is installed only for a start() that still waits for the
\* microphone, both contexts being that start's.
C30_ActiveMeansComplete ==
  /\ isActive
       => \E k \in Starts :
             /\ inputContextRef = k /\ outputContextRef = k
             /\ sendAudioRef = k /\ disconnectRef = k
  /\ ~isActive
       => /\ sendAudioRef = NULL /\ disconnectRef = NULL
          /\ \/ inputContextRef = NULL /\ outputContextRef = NULL
             \/ /\ inputContextRef = outputContextRef
                /\ pc[inputContextRef] = "awaitMic"

====
